---------------------------- MODULE Spec2Model ----------------------------
(***************************************************************************)
(* Ring signatures and within-ring signatures of pyring                    *)
(* (src/pyring/one_time.py) and their PEM/DER serialization                *)
(* (src/pyring/serialize.py).                                              *)
(*                                                                         *)
(* The group layer (pyring/ge.py, pyring/sc25519.py) is not part of the    *)
(* sources at hand; it is modelled from the specification as the cyclic    *)
(* group of order L generated by G, a point being represented by its       *)
(* discrete logarithm to the base G.  Python lists are 0-based: a Python   *)
(* index i is the TLA+ index i + 1.                                        *)
(***************************************************************************)
EXTENDS Integers, Sequences, FiniteSets, TLC

\* Largest ring size explored.
MaxRing == 2

\* Order of the group (the specification's l, scaled down).
L == 3

Scalars == 0 .. (L - 1)
Points == 0 .. (L - 1)

\* The messages signed (byte strings).
Messages == {<<>>, <<1>>}

---------------------------------------------------------------------------
(* Group layer: sc25519.Scalar and ge.Point                                *)

ScalarAdd(a, b) == (a + b) % L
ScalarSub(a, b) == (a - b) % L
ScalarMul(a, b) == (a * b) % L

\* The base point.
G == 1 % L
PointAdd(P, Q) == (P + Q) % L
PointSub(P, Q) == (P - Q) % L
\* Scalar.__mul__(Point): s * P
ScalarMulPoint(s, P) == (s * P) % L

\* Point.as_bytes(): the canonical encoding, one byte here instead of 32.
as_bytes(P) == <<P>>

\* Point.hash_to_point(): a fixed map of points to points.
hash_to_point(P) == (2 * P + 1) % L

\* ge.hash_to_scalar(buffer): a fixed, position-dependent digest reduced mod L.
RECURSIVE Digest(_, _, _)
Digest(buffer, k, h) ==
    IF k > Len(buffer) THEN h
    ELSE Digest(buffer, k + 1, (2 * h + buffer[k] + k) % L)

hash_to_scalar(buffer) == Digest(buffer, 1, 1 % L)

---------------------------------------------------------------------------
(* Python helpers                                                          *)

\* functools.reduce(operator.add, c) for a non-empty list c.
RECURSIVE Reduce(_)
Reduce(c) ==
    IF Len(c) = 1 THEN c[1]
    ELSE ScalarAdd(Reduce(SubSeq(c, 1, Len(c) - 1)), c[Len(c)])

\* list.insert(s, v) for 0 <= s: inserts before Python index s, appends when
\* s is past the end.
ListInsert(l, s, v) ==
    IF s >= Len(l) THEN Append(l, v)
    ELSE SubSeq(l, 1, s) \o <<v>> \o SubSeq(l, s + 1, Len(l))

Min(a, b) == IF a <= b THEN a ELSE b

\* list.index(v): the first Python index holding v, -1 standing for the
\* ValueError raised when there is none.
ListIndex(l, v) ==
    IF \E i \in 1 .. Len(l) : l[i] = v
    THEN (CHOOSE i \in 1 .. Len(l) : l[i] = v /\ \A j \in 1 .. (i - 1) : l[j] # v) - 1
    ELSE -1

---------------------------------------------------------------------------
(* Keys                                                                    *)

\* PrivateKey.public_key().point
PublicKeyPoint(x) == ScalarMulPoint(x, G)

KeyImage_FixedBase(x) == ScalarMulPoint(x, hash_to_point(G))

\* PrivateKey.key_image()
KeyImage(x) == ScalarMulPoint(x, hash_to_point(PublicKeyPoint(x)))

---------------------------------------------------------------------------
(* Signing: one_time.sign, ring_sign, within_ring_sign                     *)

\* An exception raised instead of a value returned.
Raised(e) == [kind |-> e]

\* The loop of sign over enumerate(public_keys).  draws[i] holds the scalars
\* Scalar.random() returns in iteration i: q (q_s or q_i) and w (w_i).
RECURSIVE SignLoop(_, _, _, _, _, _)
SignLoop(i, acc, public_keys, I, key_index, draws) ==
    IF i > Len(public_keys) THEN acc
    ELSE LET P_i == public_keys[i]
             q == draws[i].q
             w == draws[i].w
         IN  IF i - 1 = key_index
             THEN SignLoop(i + 1,
                      [acc EXCEPT
                          !.q_s = q,
                          !.buffer = @ \o as_bytes(ScalarMulPoint(q, G))
                                       \o as_bytes(ScalarMulPoint(q, hash_to_point(P_i)))],
                      public_keys, I, key_index, draws)
             ELSE SignLoop(i + 1,
                      [acc EXCEPT
                          !.c = Append(@, w),
                          !.r = Append(@, q),
                          !.buffer = @ \o as_bytes(PointAdd(ScalarMulPoint(q, G),
                                                            ScalarMulPoint(w, P_i)))
                                       \o as_bytes(PointAdd(ScalarMulPoint(q, hash_to_point(P_i)),
                                                            ScalarMulPoint(w, I)))],
                      public_keys, I, key_index, draws)

\* The two closing list.insert calls of sign.
SignClose_AtFront(acc, x, s) ==
    LET c == ListInsert(acc.c, 0, ScalarSub(hash_to_scalar(acc.buffer), Reduce(acc.c)))
        r == ListInsert(acc.r, 0, ScalarSub(acc.q_s, ScalarMul(c[1], x)))
    IN  [c |-> c, r |-> r]

SignClose(acc, x, s) ==
    LET c == ListInsert(acc.c, s, ScalarSub(hash_to_scalar(acc.buffer), Reduce(acc.c)))
        r == ListInsert(acc.r, s, ScalarSub(acc.q_s, ScalarMul(c[s + 1], x)))
    IN  [c |-> c, r |-> r]

\* sign(message, public_keys, private_key, key_index): the tuple
\* (public_keys, I, c, r), or the TypeError of functools.reduce on the empty
\* list c, which is what the loop leaves when no index differs from key_index.
sign(message, public_keys, private_key, key_index, draws) ==
    LET x == private_key
        s == key_index
        I == KeyImage(private_key)
        acc == SignLoop(1, [buffer |-> message, c |-> <<>>, r |-> <<>>, q_s |-> 0],
                        public_keys, I, key_index, draws)
    IN  IF acc.c = <<>>
        THEN Raised("TypeError")
        ELSE LET closed == SignClose(acc, x, s)
             IN  [kind |-> "tuple", public_keys |-> public_keys, key_image |-> I,
                  c |-> closed.c, r |-> closed.r]

ring_sign(message, public_keys, private_key, key_index, draws) ==
    LET t == sign(message, public_keys, private_key, key_index, draws)
    IN  IF t.kind # "tuple" THEN t
        ELSE [kind |-> "RingSignature", public_keys |-> t.public_keys,
              key_image |-> t.key_image, c |-> t.c, r |-> t.r]

within_ring_sign_SignerOnly(message, public_keys, private_key, key_index, draws, rho) ==
    LET t == sign(message, public_keys, private_key, key_index, draws)
    IN  IF t.kind # "tuple" THEN t
        ELSE [kind |-> "WithinRingSignature",
              public_keys |-> t.public_keys,
              public_points |-> [i \in 1 .. Len(t.public_keys) |->
                                    ScalarMulPoint(rho[i], G)],
              enc_points |-> [i \in 1 .. Len(t.public_keys) |->
                                 IF i - 1 = key_index
                                 THEN PointAdd(ScalarMulPoint(rho[i], t.public_keys[i]),
                                               t.key_image)
                                 ELSE ScalarMulPoint(rho[i], t.public_keys[i])],
              c |-> t.c, r |-> t.r]

\* within_ring_sign: rho[i] is the scalar r_i Scalar.random() returns for
\* public_keys[i].
within_ring_sign(message, public_keys, private_key, key_index, draws, rho) ==
    LET t == sign(message, public_keys, private_key, key_index, draws)
    IN  IF t.kind # "tuple" THEN t
        ELSE [kind |-> "WithinRingSignature",
              public_keys |-> t.public_keys,
              public_points |-> [i \in 1 .. Len(t.public_keys) |->
                                    ScalarMulPoint(rho[i], G)],
              enc_points |-> [i \in 1 .. Len(t.public_keys) |->
                                 PointAdd(ScalarMulPoint(rho[i], t.public_keys[i]),
                                          t.key_image)],
              c |-> t.c, r |-> t.r]

---------------------------------------------------------------------------
(* Verification: one_time.ring_verify, within_ring_verify                  *)

\* The loop of ring_verify over zip(public_keys, r, c), which stops at the
\* shortest of the three lists.
RECURSIVE VerifyLoop(_, _, _, _, _, _, _)
VerifyLoop(i, n, buffer, public_keys, I, c, r) ==
    IF i > n THEN buffer
    ELSE VerifyLoop(i + 1, n,
             buffer \o as_bytes(PointAdd(ScalarMulPoint(r[i], G),
                                         ScalarMulPoint(c[i], public_keys[i])))
                    \o as_bytes(PointAdd(ScalarMulPoint(r[i], hash_to_point(public_keys[i])),
                                         ScalarMulPoint(c[i], I))),
             public_keys, I, c, r)

ZipLen(public_keys, r, c) == Min(Len(public_keys), Min(Len(r), Len(c)))

\* ring_verify(message, signature): "True", "False", or the TypeError of
\* functools.reduce on an empty c.
ring_verify(message, signature) ==
    LET buffer == VerifyLoop(1, ZipLen(signature.public_keys, signature.r, signature.c),
                             message, signature.public_keys, signature.key_image,
                             signature.c, signature.r)
    IN  IF signature.c = <<>> THEN "TypeError"
        ELSE IF ScalarSub(hash_to_scalar(buffer), Reduce(signature.c)) = 0
             THEN "True" ELSE "False"

\* The key image within_ring_verify recovers at Python index `index`.
RecoveredKeyImage(signature, private_key, index) ==
    PointSub(signature.enc_points[index + 1],
             ScalarMulPoint(private_key, signature.public_points[index + 1]))

within_ring_verify_NoLookupError(message, signature, private_key) ==
    LET found == ListIndex(signature.public_keys, PublicKeyPoint(private_key))
        index == IF found < 0 THEN 0 ELSE found
    IN  ring_verify(message,
                    [kind |-> "RingSignature", public_keys |-> signature.public_keys,
                     key_image |-> RecoveredKeyImage(signature, private_key, index),
                     c |-> signature.c, r |-> signature.r])

\* within_ring_verify(message, signature, private_key): list.index raises
\* ValueError when the caller's public key is not in signature.public_keys.
within_ring_verify(message, signature, private_key) ==
    LET index == ListIndex(signature.public_keys, PublicKeyPoint(private_key))
    IN  IF index < 0 THEN "ValueError"
        ELSE ring_verify(message,
                 [kind |-> "RingSignature", public_keys |-> signature.public_keys,
                  key_image |-> RecoveredKeyImage(signature, private_key, index),
                  c |-> signature.c, r |-> signature.r])

---------------------------------------------------------------------------
(* Serialization: serialize.py.  A text is a sequence of characters: the   *)
(* base64 alphabet is 0 .. 63, and the padding '=', the line break and the  *)
(* two armor lines are one character each.                                  *)

\* ASN.1 universal tags of the DER encoding (pyasn1.type.univ).
TagOctetString == 4
TagObjectIdentifier == 6
TagSequence == 48

PadChar == 64
Newline == 65
\* _PEM_OPENING and _PEM_CLOSING
PEM_OPENING == 66
PEM_CLOSING == 67

\* textwrap.wrap(..., 64)
WrapWidth == 64

\* The DER contents of _OBJECT_ID = (2, 25) + tuple(_UUID.bytes): the arcs 2
\* and 25 share the first byte, 40 * 2 + 25; the UUID is cut to two bytes.
OBJECT_ID == <<105, 59, 94>>

\* DER tag-length-value; every length here is below 128, one byte.
Tlv(tag, content) == <<tag, Len(content)>> \o content

RECURSIVE Concat(_)
Concat(ss) == IF ss = <<>> THEN <<>> ELSE ss[1] \o Concat(Tail(ss))

\* An OCTET STRING holding bytes(x.data) of a point or scalar x.
DerOctets(x) == Tlv(TagOctetString, <<x>>)

\* A SEQUENCE OF OCTET STRING.
DerSequenceOf(xs) ==
    Tlv(TagSequence, Concat([i \in 1 .. Len(xs) |-> DerOctets(xs[i])]))

\* pyasn1.codec.der.encoder.encode of RingSignatureSchema: the components in
\* schema order, algorithm, key_image, public_keys, c, r.
DerRingSignature(sig) ==
    Tlv(TagSequence,
        Tlv(TagObjectIdentifier, OBJECT_ID)
        \o DerOctets(sig.key_image)
        \o DerSequenceOf(sig.public_keys)
        \o DerSequenceOf(sig.c)
        \o DerSequenceOf(sig.r))

\* WithinRingSignatureSchema: algorithm, public_points, enc_points,
\* public_keys, c, r.
DerWithinRingSignature(sig) ==
    Tlv(TagSequence,
        Tlv(TagObjectIdentifier, OBJECT_ID)
        \o DerSequenceOf(sig.public_points)
        \o DerSequenceOf(sig.enc_points)
        \o DerSequenceOf(sig.public_keys)
        \o DerSequenceOf(sig.c)
        \o DerSequenceOf(sig.r))

\* base64.b64encode: three bytes to four characters, padded at the end.
RECURSIVE B64Encode(_)
B64Encode(bytes) ==
    IF Len(bytes) = 0 THEN <<>>
    ELSE IF Len(bytes) = 1
    THEN LET n == bytes[1] * 65536
         IN  <<n \div 262144, (n \div 4096) % 64, PadChar, PadChar>>
    ELSE IF Len(bytes) = 2
    THEN LET n == bytes[1] * 65536 + bytes[2] * 256
         IN  <<n \div 262144, (n \div 4096) % 64, (n \div 64) % 64, PadChar>>
    ELSE LET n == bytes[1] * 65536 + bytes[2] * 256 + bytes[3]
         IN  <<n \div 262144, (n \div 4096) % 64, (n \div 64) % 64, n % 64>>
             \o B64Encode(SubSeq(bytes, 4, Len(bytes)))

\* base64.b64decode(..., validate=True) of well-formed quadruples; the
\* result is <<-1>> for the binascii.Error of anything else.
RECURSIVE B64Decode(_)
B64Decode(chars) ==
    IF Len(chars) = 0 THEN <<>>
    ELSE IF Len(chars) < 4 \/ chars[1] > 63 \/ chars[2] > 63 THEN <<-1>>
    ELSE LET last == Len(chars) = 4
             a == chars[1]
             b == chars[2]
             c == chars[3]
             d == chars[4]
         IN  IF c = PadChar
             THEN IF last /\ d = PadChar
                  THEN <<(a * 262144 + b * 4096) \div 65536>>
                  ELSE <<-1>>
             ELSE IF d = PadChar
             THEN IF last /\ c <= 63
                  THEN LET n == a * 262144 + b * 4096 + c * 64
                       IN  <<n \div 65536, (n \div 256) % 256>>
                  ELSE <<-1>>
             ELSE IF c > 63 \/ d > 63 THEN <<-1>>
             ELSE LET n == a * 262144 + b * 4096 + c * 64 + d
                      rest == B64Decode(SubSeq(chars, 5, Len(chars)))
                  IN  IF rest = <<-1>> THEN <<-1>>
                      ELSE <<n \div 65536, (n \div 256) % 256, n % 256>> \o rest

\* "\n".join(textwrap.wrap(s, 64))
RECURSIVE Wrap(_)
Wrap(chars) ==
    IF Len(chars) <= WrapWidth THEN chars
    ELSE SubSeq(chars, 1, WrapWidth) \o <<Newline>>
         \o Wrap(SubSeq(chars, WrapWidth + 1, Len(chars)))

Armor(der) == <<PEM_OPENING, Newline>> \o Wrap(B64Encode(der)) \o <<Newline, PEM_CLOSING>>

export_ring_pem(ring_signature) == Armor(DerRingSignature(ring_signature))

export_within_ring_pem(ring_signature) == Armor(DerWithinRingSignature(ring_signature))

\* pyasn1.codec.der.decoder.decode without a schema: one value and the
\* remainder.  A SEQUENCE decodes to its components, field-0, field-1, ...;
\* anything else keeps its contents.
RECURSIVE DerDecode(_), DerDecodeAll(_)
DerDecode(bytes) ==
    LET tag == bytes[1]
        len == bytes[2]
        content == SubSeq(bytes, 3, 2 + len)
        remainder == SubSeq(bytes, 3 + len, Len(bytes))
    IN  [value |-> IF tag = TagSequence
                   THEN [tag |-> tag, fields |-> DerDecodeAll(content), data |-> <<>>]
                   ELSE [tag |-> tag, fields |-> <<>>, data |-> content],
         remainder |-> remainder]

DerDecodeAll(bytes) ==
    IF bytes = <<>> THEN <<>>
    ELSE LET one == DerDecode(bytes)
         IN  <<one.value>> \o DerDecodeAll(one.remainder)

\* The part import_pem's two definitions share: the armor, the base64 text,
\* the DER value and its object ID.  The decoded ASN.1 value, or what is
\* raised.
Unarmor(signature) ==
    IF Len(signature) < 2 \/ signature[1] # PEM_OPENING
       \/ signature[Len(signature)] # PEM_CLOSING
    THEN Raised("ValueError")
    ELSE LET body == SelectSeq(SubSeq(signature, 2, Len(signature) - 1),
                               LAMBDA ch : ch # Newline)
             der == B64Decode(body)
         IN  IF der = <<-1>> \/ Len(der) < 2 THEN Raised("Error")
             ELSE LET decoded == DerDecode(der)
                      asn1 == decoded.value
                  IN  IF decoded.remainder # <<>> THEN Raised("ValueError")
                      ELSE IF asn1.fields = <<>>
                              \/ asn1.fields[1].tag # TagObjectIdentifier
                              \/ asn1.fields[1].data # OBJECT_ID
                      THEN Raised("ValueError")
                      ELSE [kind |-> "asn1", fields |-> asn1.fields]

\* [Point(p) for p in field] and [Scalar(c) for c in field] over a decoded
\* SEQUENCE OF OCTET STRING.
Elements(field) == [i \in 1 .. Len(field.fields) |-> field.fields[i].data[1]]

IsOctetString(field) == field.tag = TagOctetString /\ Len(field.data) = 1

IsSequenceOfOctets(field) ==
    /\ field.tag = TagSequence
    /\ \A i \in 1 .. Len(field.fields) : IsOctetString(field.fields[i])

\* The first definition of import_pem (lines 109-133), which reads the
\* RingSignature layout.  The module rebinds the name right after it.
import_pem_RingSignature(signature) ==
    LET asn1 == Unarmor(signature)
    IN  IF asn1.kind # "asn1" THEN asn1
        ELSE IF Len(asn1.fields) < 5
                \/ ~IsOctetString(asn1.fields[2])
                \/ \E k \in 3 .. 5 : ~IsSequenceOfOctets(asn1.fields[k])
        THEN Raised("Error")
        ELSE [kind |-> "RingSignature",
              public_keys |-> Elements(asn1.fields[3]),
              key_image |-> asn1.fields[2].data[1],
              c |-> Elements(asn1.fields[4]),
              r |-> Elements(asn1.fields[5])]

\* The second definition of import_pem (lines 135-160), which reads the
\* WithinRingSignature layout: field-1 .. field-5 are five lists.  On the
\* five components of a RingSignature there is no field-5, and field-1 is
\* not a list: an exception either way.
import_pem_WithinRingSignature(signature) ==
    LET asn1 == Unarmor(signature)
    IN  IF asn1.kind # "asn1" THEN asn1
        ELSE IF Len(asn1.fields) < 6
                \/ \E k \in 2 .. 6 : ~IsSequenceOfOctets(asn1.fields[k])
        THEN Raised("Error")
        ELSE [kind |-> "WithinRingSignature",
              public_keys |-> Elements(asn1.fields[4]),
              public_points |-> Elements(asn1.fields[2]),
              enc_points |-> Elements(asn1.fields[3]),
              c |-> Elements(asn1.fields[5]),
              r |-> Elements(asn1.fields[6])]

\* serialize.import_pem: the name is bound to the definition made last.
import_pem(signature) == import_pem_WithinRingSignature(signature)

---------------------------------------------------------------------------
(* The state machine: a caller signs, then verifies the signature,         *)
(* verifies it with one element too many in a vector, exports and imports  *)
(* it, or keeps its key image and signs another message against another    *)
(* ring with the same private key.                                         *)

VARIABLES
    message,      \* the message signed
    public_keys,  \* the ring handed to the signer
    private_key,  \* the signer's scalar x
    key_index,    \* the signer's Python index s in the ring
    draws,        \* what Scalar.random() returned in sign: draws[i].q, draws[i].w
    pc,           \* "start", "signed", "raised", "verified", "exported", "imported"
    signature,    \* what ring_sign / within_ring_sign returned or raised
    presented,    \* the signature handed to the verifier
    verify_key,   \* the private scalar handed to within_ring_verify
    verdict,      \* what the verifier returned or raised
    pem,          \* the exported text
    imported,     \* what import_pem returned or raised
    earlier_image \* the key image of an earlier signature by private_key, or -1

vars == <<message, public_keys, private_key, key_index, draws, pc, signature,
          presented, verify_key, verdict, pem, imported, earlier_image>>

None == [kind |-> "None"]

\* The rings of size n whose member at Python index s is x * G.
Rings(n, s, x) ==
    {ring \in [1 .. n -> Points] : ring[s + 1] = PublicKeyPoint(x)}

\* The scalars sign draws for a ring of size n: q and w for every index but
\* key_index, which draws q alone.
Draws(n, s) ==
    {d \in [1 .. n -> [q : Scalars, w : Scalars]] : d[s + 1].w = 0}

Init ==
    /\ message \in Messages
    /\ private_key \in Scalars
    /\ \E n \in 1 .. MaxRing :
          /\ key_index \in 0 .. (n - 1)
          /\ public_keys \in Rings(n, key_index, private_key)
    /\ draws = <<>>
    /\ pc = "start"
    /\ signature = None
    /\ presented = None
    /\ verify_key = -1
    /\ verdict = "None"
    /\ pem = <<>>
    /\ imported = None
    /\ earlier_image = -1

Inputs == <<message, public_keys, private_key, key_index>>

RingSign ==
    /\ pc = "start"
    /\ \E d \in Draws(Len(public_keys), key_index) :
          /\ draws' = d
          /\ signature' = ring_sign(message, public_keys, private_key, key_index, d)
    /\ pc' = IF signature'.kind = "RingSignature" THEN "signed" ELSE "raised"
    /\ UNCHANGED <<Inputs, presented, verify_key, verdict, pem, imported, earlier_image>>

WithinRingSign ==
    /\ pc = "start"
    /\ \E d \in Draws(Len(public_keys), key_index),
          rho \in [1 .. Len(public_keys) -> Scalars] :
          /\ draws' = d
          /\ signature' = within_ring_sign(message, public_keys, private_key,
                                           key_index, d, rho)
    /\ pc' = IF signature'.kind = "WithinRingSignature" THEN "signed" ELSE "raised"
    /\ UNCHANGED <<Inputs, presented, verify_key, verdict, pem, imported, earlier_image>>

RingVerify ==
    /\ pc = "signed"
    /\ signature.kind = "RingSignature"
    /\ presented' = signature
    /\ verdict' = ring_verify(message, signature)
    /\ pc' = "verified"
    /\ UNCHANGED <<Inputs, draws, signature, verify_key, pem, imported, earlier_image>>

\* The signature with one more element at the end of one of its vectors.
Lengthened(sig) ==
    {[sig EXCEPT !.public_keys = Append(@, P)] : P \in Points}
    \cup {[sig EXCEPT !.r = Append(@, v)] : v \in Scalars}
    \cup {[sig EXCEPT !.c = Append(@, v)] : v \in Scalars}

RingVerifyLengthened ==
    /\ pc = "signed"
    /\ signature.kind = "RingSignature"
    /\ presented' \in Lengthened(signature)
    /\ verdict' = ring_verify(message, presented')
    /\ pc' = "verified"
    /\ UNCHANGED <<Inputs, draws, signature, verify_key, pem, imported, earlier_image>>

WithinRingVerify ==
    /\ pc = "signed"
    /\ signature.kind = "WithinRingSignature"
    /\ verify_key' \in Scalars
    /\ presented' = signature
    /\ verdict' = within_ring_verify(message, signature, verify_key')
    /\ pc' = "verified"
    /\ UNCHANGED <<Inputs, draws, signature, pem, imported, earlier_image>>

ExportPem ==
    /\ pc = "signed"
    /\ pem' = IF signature.kind = "RingSignature"
              THEN export_ring_pem(signature)
              ELSE export_within_ring_pem(signature)
    /\ pc' = "exported"
    /\ UNCHANGED <<Inputs, draws, signature, presented, verify_key, verdict, imported,
                   earlier_image>>

ImportPem ==
    /\ pc = "exported"
    /\ imported' = import_pem(pem)
    /\ pc' = "imported"
    /\ UNCHANGED <<Inputs, draws, signature, presented, verify_key, verdict, pem,
                   earlier_image>>

\* The caller keeps the key image of the first signature it made.
KeepKeyImage ==
    /\ pc = "signed"
    /\ signature.kind = "RingSignature"
    /\ earlier_image = -1
    /\ earlier_image' = signature.key_image
    /\ signature' = None
    /\ draws' = <<>>
    /\ pc' = "kept"
    /\ UNCHANGED <<Inputs, presented, verify_key, verdict, pem, imported>>

\* The next call of ring_sign: the same private key, any message, ring and
\* index.
SignAnother ==
    /\ pc = "kept"
    /\ message' \in Messages
    /\ \E n \in 1 .. MaxRing :
          /\ key_index' \in 0 .. (n - 1)
          /\ public_keys' \in Rings(n, key_index', private_key)
    /\ pc' = "start"
    /\ UNCHANGED <<private_key, draws, signature, presented, verify_key, verdict,
                   pem, imported, earlier_image>>

\* A caller of ring_sign.
Next ==
    \/ RingSign
    \/ RingVerify
    \/ RingVerifyLengthened
    \/ ExportPem
    \/ ImportPem
    \/ KeepKeyImage
    \/ SignAnother

Spec == Init /\ [][Next]_vars

\* A caller of within_ring_sign.
NextWithin ==
    \/ WithinRingSign
    \/ WithinRingVerify

\* The signers alone, of either variant.
NextSign ==
    \/ RingSign
    \/ WithinRingSign

SpecSign == Init /\ [][NextSign]_vars

\* A caller exporting and importing a within-ring signature.
NextWithinPem ==
    \/ WithinRingSign
    \/ ExportPem
    \/ ImportPem

\* The rings of within-ring callers hold each member once.
InitWithin ==
    /\ Init
    /\ \A i, j \in 1 .. Len(public_keys) : public_keys[i] = public_keys[j] => i = j

SpecWithin == InitWithin /\ [][NextWithin]_vars

SpecWithinPem == InitWithin /\ [][NextWithinPem]_vars

---------------------------------------------------------------------------
(* Properties                                                              *)

n_ring == Len(public_keys)
Returned == signature.kind \in {"RingSignature", "WithinRingSignature"}
InRing(k) == \E i \in 1 .. n_ring : public_keys[i] = PublicKeyPoint(k)
VerifiedAsSigned == pc = "verified" /\ presented = signature

\* C1: for every message, every ring of size n >= 1 (n = 1 included), every
\* private scalar x and index s with ring[s] = x*G, ring_sign succeeds and
\* ring_verify of the message and the signature returns true, whatever the
\* signer draws.
C1_SignVerifies ==
    /\ pc # "start" => signature.kind = "RingSignature"
    /\ VerifiedAsSigned => verdict = "True"

\* What the code does instead of C1: a ring of one member makes sign raise,
\* and every larger ring is signed and verified.
RingOfOneRaises ==
    /\ pc # "start" => (signature.kind = "TypeError" <=> n_ring = 1)
    /\ VerifiedAsSigned => verdict = "True"

\* C2: for every message, ring of size n >= 1, private scalar x and index s
\* with ring[s] = x*G, within_ring_verify of within_ring_sign's signature and
\* x returns true: enc_points[s] - x*public_points[s] is the key image used
\* in signing.
C2_SignerVerifiesWithin ==
    /\ pc # "start" => signature.kind = "WithinRingSignature"
    /\ (pc = "verified" /\ verify_key = private_key) =>
          /\ verdict = "True"
          /\ RecoveredKeyImage(signature, private_key, key_index) = KeyImage(private_key)

\* The ring member other than the signer that C3 is about: its public key is
\* in the ring at an index other than the signer's.
NonSignerVerified ==
    /\ pc = "verified"
    /\ signature.kind = "WithinRingSignature"
    /\ verify_key # private_key
    /\ ListIndex(signature.public_keys, PublicKeyPoint(verify_key)) >= 0
    /\ ListIndex(signature.public_keys, PublicKeyPoint(verify_key)) # key_index

C4_KeyImageOfScalarAlone ==
    signature.kind = "RingSignature" =>
        /\ signature.key_image
           = ScalarMulPoint(private_key, hash_to_point(ScalarMulPoint(private_key, G)))
        /\ earlier_image # -1 => signature.key_image = earlier_image

C4_Witness ==
    /\ pc = "signed"
    /\ signature.kind = "RingSignature"
    /\ earlier_image = signature.key_image
    /\ earlier_image # 0
    /\ key_index > 0
    /\ message # <<>>
    /\ \E i \in 1 .. n_ring : draws[i].q # 0 /\ draws[i].w # 0

\* C6: import_pem of the exported text is the signature exported, field by
\* field.
C6_PemRoundTrip ==
    pc = "imported" => imported = signature

\* C7: ring_verify never returns true for a signature whose public_keys, c
\* and r are not of one length.
C7_ShapeMismatchRejected ==
    (/\ pc = "verified"
     /\ ~(Len(presented.public_keys) = Len(presented.c)
          /\ Len(presented.c) = Len(presented.r)))
    => verdict # "True"

\* C8: within_ring_verify raises, returning neither true nor false, exactly
\* when the public key of the scalar it is given is not in
\* signature.public_keys.
C8_MembershipError ==
    pc = "verified" =>
        /\ ~InRing(verify_key) => verdict = "ValueError"
        /\ InRing(verify_key) => verdict \in {"True", "False"}

C8_Witness == pc = "verified" /\ ~InRing(verify_key) /\ verdict = "ValueError"

\* C9: for every ring of size n >= 1 and every index s, ring_sign returns a
\* signature whose public_keys, c and r have length n.
C9_RingSizeStable ==
    pc # "start" =>
        /\ signature.kind = "RingSignature"
        /\ Len(signature.public_keys) = n_ring
        /\ Len(signature.c) = n_ring
        /\ Len(signature.r) = n_ring

\* The same for within_ring_sign, with public_points and enc_points.
RingSizeStableWithin ==
    pc # "start" =>
        /\ signature.kind = "WithinRingSignature"
        /\ Len(signature.public_keys) = n_ring
        /\ Len(signature.c) = n_ring
        /\ Len(signature.r) = n_ring
        /\ Len(signature.public_points) = n_ring
        /\ Len(signature.enc_points) = n_ring

\* What the code does instead of C9: the vectors of every signature that is
\* returned have length n.
ReturnedRingSizeStable ==
    Returned =>
        /\ Len(signature.public_keys) = n_ring
        /\ Len(signature.c) = n_ring
        /\ Len(signature.r) = n_ring
        /\ signature.kind = "WithinRingSignature" =>
              /\ Len(signature.public_points) = n_ring
              /\ Len(signature.enc_points) = n_ring

\* The transcript the signer hashes, from the scalars drawn: the message,
\* then for every ring member in ring order its two commitments.
RECURSIVE Transcript(_)
Transcript(i) ==
    IF i = 0 THEN message
    ELSE Transcript(i - 1)
         \o IF i - 1 = key_index
            THEN <<(draws[i].q * G) % L,
                   (draws[i].q * hash_to_point(public_keys[i])) % L>>
            ELSE <<(draws[i].q * G + draws[i].w * public_keys[i]) % L,
                   (draws[i].q * hash_to_point(public_keys[i])
                    + draws[i].w * KeyImage(private_key)) % L>>

RECURSIVE SumOfOthers(_)
SumOfOthers(i) ==
    IF i = 0 THEN 0
    ELSE (SumOfOthers(i - 1) + IF i - 1 = key_index THEN 0 ELSE draws[i].w) % L

WithinPemRoundTrip ==
    pc = "imported" =>
        /\ imported.kind = "WithinRingSignature"
        /\ \A f \in {"public_keys", "public_points", "enc_points", "c", "r"} :
              imported[f] = signature[f]

============================================================================
